---- MODULE Spec2Model ----
(***************************************************************************)
(* Model of restic_prometheus_exporter.py: the snapshot-listing parser,    *)
(* the size and timestamp conversions, the metrics publication cycle and   *)
(* the process life cycle of main().                                       *)
(*                                                                         *)
(* Text is a sequence of one-character strings.  Python floats are kept as *)
(* exact rationals m * 2^e / 5^f in normal form (see Num), because the     *)
(* byte counts of GiB and TiB sizes do not fit a 32-bit integer.           *)
(* datetime.timestamp() is taken in a process whose local zone is UTC.     *)
(***************************************************************************)
EXTENDS Integers, Sequences, FiniteSets, TLC

(***************************************************************************)
(* str methods used by the program                                         *)
(***************************************************************************)
NL == "\n"

\* str.isspace() for the characters a line can hold
IsSpace(c) == c = " " \/ c = "\t"

\* str.startswith(prefix)
startswith(s, p) == Len(s) >= Len(p) /\ SubSeq(s, 1, Len(p)) = p

\* index of the first character of s at or after i that is in S (in = TRUE) or
\* not in S (in = FALSE); Len(s) + 1 if there is none
RECURSIVE FirstAt(_, _, _, _)
FirstAt(s, i, S, in) ==
    IF i > Len(s) THEN Len(s) + 1
    ELSE IF (s[i] \in S) = in THEN i ELSE FirstAt(s, i + 1, S, in)

Whitespace == {" ", "\t"}

\* str.splitlines(): no line for the empty text, none after a final newline
RECURSIVE splitlines(_)
splitlines(s) ==
    IF s = <<>> THEN <<>>
    ELSE LET i == FirstAt(s, 1, {NL}, TRUE)
         IN  <<SubSeq(s, 1, i - 1)>> \o splitlines(SubSeq(s, i + 1, Len(s)))

\* str.split() with no argument: runs of whitespace separate, none are kept
RECURSIVE split(_)
split(s) ==
    LET b == FirstAt(s, 1, Whitespace, FALSE)
    IN  IF b > Len(s) THEN <<>>
        ELSE LET e == FirstAt(s, b, Whitespace, TRUE)
             IN  <<SubSeq(s, b, e - 1)>> \o split(SubSeq(s, e, Len(s)))

\* str.strip()
RECURSIVE rstrip(_)
rstrip(s) ==
    IF s # <<>> /\ IsSpace(s[Len(s)]) THEN rstrip(SubSeq(s, 1, Len(s) - 1)) ELSE s

strip(s) == rstrip(SubSeq(s, FirstAt(s, 1, Whitespace, FALSE), Len(s)))

\* sep.join(parts)
RECURSIVE join(_, _)
join(sep, parts) ==
    IF parts = <<>> THEN <<>>
    ELSE IF Len(parts) = 1 THEN parts[1]
    ELSE parts[1] \o sep \o join(sep, Tail(parts))

(***************************************************************************)
(* Numbers                                                                 *)
(***************************************************************************)
Digits == {"0", "1", "2", "3", "4", "5", "6", "7", "8", "9"}

DigitVal(c) ==
    CASE c = "0" -> 0 [] c = "1" -> 1 [] c = "2" -> 2 [] c = "3" -> 3
      [] c = "4" -> 4 [] c = "5" -> 5 [] c = "6" -> 6 [] c = "7" -> 7
      [] c = "8" -> 8 [] c = "9" -> 9

DigitChar(d) == <<"0", "1", "2", "3", "4", "5", "6", "7", "8", "9">>[d + 1]

AllDigits(s) == \A i \in 1..Len(s) : s[i] \in Digits

\* the value of a string of decimal digits (0 for the empty string)
RECURSIVE DecVal(_)
DecVal(s) ==
    IF s = <<>> THEN 0
    ELSE 10 * DecVal(SubSeq(s, 1, Len(s) - 1)) + DigitVal(s[Len(s)])

RECURSIVE Pow10(_)
Pow10(k) == IF k = 0 THEN 1 ELSE 10 * Pow10(k - 1)

\* str(n) of an int
RECURSIVE StrNat(_)
StrNat(n) == IF n < 10 THEN <<DigitChar(n)>> ELSE StrNat(n \div 10) \o <<DigitChar(n % 10)>>

str(n) == IF n < 0 THEN <<"-">> \o StrNat(0 - n) ELSE StrNat(n)

\* A float: the rational m * 2^e / 5^f, in its one normal form: m odd, m not
\* a multiple of 5 unless f = 0, and zero as m = 0, e = 0, f = 0.
RECURSIVE Normal(_, _, _)
Normal(m, e, f) ==
    IF m = 0 THEN [m |-> 0, e |-> 0, f |-> 0]
    ELSE IF m % 2 = 0 THEN Normal(m \div 2, e + 1, f)
    ELSE IF f > 0 /\ m % 5 = 0 THEN Normal(m \div 5, e, f - 1)
    ELSE [m |-> m, e |-> e, f |-> f]

\* the float n / 10^j * 1024^k
Num(n, j, k) == Normal(n, 10 * k - j, j)

Zero == Num(0, 0, 0)

\* float(s) for a decimal literal: [ok |-> FALSE] is ValueError.  The literal is
\* an optional sign, digits, and at most one point, with a digit somewhere.
\* (Exponents, inf, nan and digit separators, which float() also takes, are
\* not among the tokens the model feeds it.)
float(s) ==
    LET signed == s # <<>> /\ s[1] \in {"-", "+"}
        body   == IF signed THEN Tail(s) ELSE s
        p      == FirstAt(body, 1, {"."}, TRUE)
        ip     == SubSeq(body, 1, p - 1)
        fp     == SubSeq(body, p + 1, Len(body))
        mag    == DecVal(ip) * Pow10(Len(fp)) + DecVal(fp)
    IN  IF AllDigits(ip) /\ AllDigits(fp) /\ Len(ip) + Len(fp) > 0
        THEN [ok |-> TRUE,
              n  |-> IF signed /\ s[1] = "-" THEN 0 - mag ELSE mag,
              j  |-> Len(fp)]
        ELSE [ok |-> FALSE]

(***************************************************************************)
(* parse_size                                                              *)
(***************************************************************************)
wB   == <<"B">>
wKiB == <<"K", "i", "B">>
wMiB == <<"M", "i", "B">>
wGiB == <<"G", "i", "B">>
wTiB == <<"T", "i", "B">>

\* size_units.get(size_unit, 1), as the power of 1024 the multiplier is
UnitPower(unit) ==
    CASE unit = wB   -> 0
      [] unit = wKiB -> 1
      [] unit = wMiB -> 2
      [] unit = wGiB -> 3
      [] unit = wTiB -> 4
      [] OTHER       -> 0

\* parse_size with size_units[size_unit] for .get(size_unit, 1): the KeyError
\* of a unit that is not in the table is caught by line 63 and gives 0
parse_size_keyerror(size_str) ==
    LET parts == split(size_str)
    IN  IF Len(parts) # 2 THEN Zero
        ELSE LET v == float(parts[1])
             IN  IF v.ok /\ parts[2] \in {wB, wKiB, wMiB, wGiB, wTiB}
                 THEN Num(v.n, v.j, UnitPower(parts[2]))
                 ELSE Zero

parse_size(size_str) ==
    LET parts == split(size_str)
    IN  IF Len(parts) # 2 THEN Zero
        ELSE LET v == float(parts[1])
             IN  IF v.ok THEN Num(v.n, v.j, UnitPower(parts[2])) ELSE Zero

(***************************************************************************)
(* convert_to_timestamp                                                    *)
(***************************************************************************)
\* the pieces of s between occurrences of the character c
RECURSIVE Pieces(_, _)
Pieces(s, c) ==
    LET i == FirstAt(s, 1, {c}, TRUE)
    IN  IF i > Len(s) THEN <<s>>
        ELSE <<SubSeq(s, 1, i - 1)>> \o Pieces(SubSeq(s, i + 1, Len(s)), c)

\* a strptime number field: one or two digits (exactly four for %Y)
IsField(s, lo, hi) == Len(s) \in lo..hi /\ AllDigits(s)

IsLeap(y) == (y % 4 = 0 /\ y % 100 # 0) \/ y % 400 = 0

DaysInMonth(y, m) ==
    IF m = 2 THEN (IF IsLeap(y) THEN 29 ELSE 28)
    ELSE IF m \in {4, 6, 9, 11} THEN 30 ELSE 31

\* days of the year before the first of month m
RECURSIVE DaysBeforeMonth(_, _)
DaysBeforeMonth(y, m) ==
    IF m = 1 THEN 0 ELSE DaysBeforeMonth(y, m - 1) + DaysInMonth(y, m - 1)

\* leap days in the years 1..y-1
LeapsBefore(y) == ((y - 1) \div 4) - ((y - 1) \div 100) + ((y - 1) \div 400)

\* days from 1970-01-01 to y-m-d
DaysFromEpoch(y, m, d) ==
    365 * (y - 1970) + (LeapsBefore(y) - LeapsBefore(1970))
        + DaysBeforeMonth(y, m) + (d - 1)

\* datetime.strptime(date_str, "%Y-%m-%d %H:%M:%S"): [ok |-> FALSE] is ValueError
strptime(date_str) ==
    LET halves == split(date_str)
        dp == IF Len(halves) = 2 THEN Pieces(halves[1], "-") ELSE <<>>
        tp == IF Len(halves) = 2 THEN Pieces(halves[2], ":") ELSE <<>>
        shaped ==
            /\ Len(halves) = 2
            /\ date_str # <<>> /\ ~IsSpace(date_str[1]) /\ ~IsSpace(date_str[Len(date_str)])
            /\ Len(dp) = 3 /\ Len(tp) = 3
            /\ IsField(dp[1], 4, 4) /\ IsField(dp[2], 1, 2) /\ IsField(dp[3], 1, 2)
            /\ IsField(tp[1], 1, 2) /\ IsField(tp[2], 1, 2) /\ IsField(tp[3], 1, 2)
    IN  IF ~shaped THEN [ok |-> FALSE]
        ELSE LET y  == DecVal(dp[1])
                 mo == DecVal(dp[2])
                 d  == DecVal(dp[3])
                 h  == DecVal(tp[1])
                 mi == DecVal(tp[2])
                 sc == DecVal(tp[3])
             IN  IF /\ y >= 1 /\ mo \in 1..12 /\ d >= 1 /\ d <= DaysInMonth(y, mo)
                    /\ h <= 23 /\ mi <= 59 /\ sc <= 59
                 THEN [ok |-> TRUE, y |-> y, mo |-> mo, d |-> d,
                       h |-> h, mi |-> mi, sc |-> sc]
                 ELSE [ok |-> FALSE]

convert_to_timestamp(date_str) ==
    LET dt == strptime(date_str)
    IN  IF dt.ok
        THEN DaysFromEpoch(dt.y, dt.mo, dt.d) * 86400 + dt.h * 3600 + dt.mi * 60 + dt.sc
        ELSE 0

(***************************************************************************)
(* export_snapshots: the parse of the tool's output                        *)
(***************************************************************************)
wID   == <<"I", "D">>
wDash == <<"-", "-", "-">>

\* the test of line 82: the line is skipped
IsSkipped(line) == startswith(line, wID) \/ startswith(line, wDash) \/ strip(line) = <<>>

\* the least number of fields of a line that is kept (line 87)
MinFields == 6

\* lines 91-107: the record of a kept line
SnapshotOf(fields) ==
    [id        |-> fields[1],
     time      |-> fields[2] \o <<" ">> \o fields[3],
     hostname  |-> fields[4],
     tags      |-> fields[5],
     directory |-> fields[6],
     size      |-> parse_size(join(<<" ">>, SubSeq(fields, 7, Len(fields))))]

\* the loop's turn with "<= 6" for "< 6" in line 87
ParseLine_atmost(snapshots, line) ==
    IF IsSkipped(line) THEN snapshots
    ELSE LET fields == split(line)
         IN  IF Len(fields) <= MinFields THEN snapshots
             ELSE Append(snapshots, SnapshotOf(fields))

\* one turn of the loop of lines 80-107: the records so far, and the line's
ParseLine(snapshots, line) ==
    IF IsSkipped(line) THEN snapshots
    ELSE LET fields == split(line)
         IN  IF Len(fields) < MinFields THEN snapshots
             ELSE Append(snapshots, SnapshotOf(fields))

RECURSIVE ParseLines(_, _)
ParseLines(snapshots, lines) ==
    IF lines = <<>> THEN snapshots
    ELSE ParseLines(ParseLine(snapshots, Head(lines)), Tail(lines))

\* lines 78-109
ParseOutput(output) == ParseLines(<<>>, splitlines(output))

(***************************************************************************)
(* Inputs: the configurations and the tool outputs the model runs on       *)
(***************************************************************************)
\* os.getenv / parser.get(..., fallback=None) of a setting that is not there
None == "<None>"

\* the configurations: each setting absent, empty or given; ints_ok says
\* whether the int() conversions of lines 27-28 and 34-35 succeed
Configs ==
    [repository        : {None, "", "s3:repo"},
     password          : {None, "", "pw"},
     access_key_id     : {None, "key"},
     secret_access_key : {None, "secret"},
     ints_ok           : BOOLEAN,
     interval          : {-1, 30}]

wA1   == <<"a", "1">>
wB2   == <<"b", "2">>
wDate == <<"2", "0", "2", "4", "-", "1", "1", "-", "0", "7">>
wFeb30 == <<"2", "0", "2", "4", "-", "0", "2", "-", "3", "0">>
wTime == <<"1", "6", ":", "2", "6", ":", "1", "7">>
wHost == <<"h">>
wTags == <<"t">>
wDir  == <<"/", "d">>
SP    == <<" ">>

\* the table's first rows: "ID Time Host Tags Directory Size" and the dashes
HeaderLines ==
    <<join(SP, <<wID, <<"T">>, <<"H">>, <<"T">>, <<"D">>, <<"S">>>>), wDash \o wDash>>

\* the table's last rows: a line of whitespace, the dashes, "2 s"
FooterLines == <<<<" ", "\t">>, wDash \o wDash, <<"2", " ", "s">>>>

\* the rows a listing of the cycle model is made of
CycleRows ==
    { \* a1 2024-11-07 16:26:17 h t /d 3 GiB
      join(SP, <<wA1, wDate, wTime, wHost, wTags, wDir, <<"3">>, wGiB>>),
      \* the same snapshot, two blanks after the date, 1.5 MiB
      join(SP, <<wA1, wDate \o SP, wTime, wHost, wTags, wDir, <<"1", ".", "5">>, wMiB>>),
      \* b2 2024-02-30 16:26:17 h t /d: no such day, six fields, no size
      join(SP, <<wB2, wFeb30, wTime, wHost, wTags, wDir>>) }

\* the most rows of a listing of the cycle model
MaxRows == 2

\* the most polling cycles of a run
MaxCycles == 3

RECURSIVE Unlines(_)
Unlines(lines) ==
    IF lines = <<>> THEN <<>> ELSE Head(lines) \o <<NL>> \o Unlines(Tail(lines))

\* the tool's outputs: nothing at all, or a table of up to MaxRows rows
Outputs ==
    {<<>>} \cup
    { Unlines(HeaderLines \o rows \o FooterLines) :
        rows \in UNION { [1..n -> CycleRows] : n \in 0..MaxRows } }

(***************************************************************************)
(* The process                                                             *)
(***************************************************************************)
VARIABLES
    config,          \* the settings load_config reads
    pc,              \* where main() is
    exit_code,       \* the process's exit status <<n>>, NoExit while it runs
    exit_cause,      \* what ended the process
    server_started,  \* start_http_server has been called
    invoked,         \* the backup tool has been run at least once
    output,          \* the tool's standard output of the latest cycle
    snapshots,       \* export_snapshots' return value in the latest cycle
    idx,             \* the loop of lines 127-155: the record it is at
    registry,        \* SNAPSHOT_COUNT, SNAPSHOT_DETAILS, SNAPSHOT_TIMESTAMP
    cycles,          \* completed calls of update_prometheus_metrics
    wrote_in_cycle,  \* the registry was written since the cycle began
    last_registry,   \* the registry as the latest completed cycle left it
    prev_registry,   \* the registry as the cycle before the latest began
    same_output,     \* the latest cycle's tool output is that of the cycle before
    obs,             \* what a scrape has read since main's latest step
    call,            \* a call of parse_size or of the parser, by itself
    ret              \* its return value

vars == <<config, pc, exit_code, exit_cause, server_started, invoked, output,
          snapshots, idx, registry, cycles, wrote_in_cycle, last_registry,
          prev_registry, same_output, obs, call, ret>>

history == <<last_registry, prev_registry, same_output>>
pure == <<call, ret>>

\* the exit status of a process that has not exited
NoExit == <<>>

\* lines 11-15: the three gauges; a gauge without labels starts at 0, a
\* gauge with labels has no series until labels() is called
NoSeries == [l \in {} |-> 0]

EmptyRegistry == [count |-> 0, details |-> NoSeries, timestamps |-> NoSeries]

NoObs == [at |-> "none", registry |-> EmptyRegistry]
NoCall == [fn |-> "none", arg |-> <<>>, done |-> FALSE]

InitProcess ==
    /\ pc = "load_config"
    /\ exit_code = NoExit
    /\ exit_cause = "none"
    /\ server_started = FALSE
    /\ invoked = FALSE
    /\ output = <<>>
    /\ snapshots = <<>>
    /\ idx = 0
    /\ registry = EmptyRegistry
    /\ cycles = 0
    /\ wrote_in_cycle = FALSE
    /\ last_registry = EmptyRegistry
    /\ prev_registry = EmptyRegistry
    /\ same_output = FALSE
    /\ obs = NoObs

Init ==
    /\ config \in Configs
    /\ InitProcess
    /\ call = NoCall
    /\ ret = <<>>

\* sys.exit(1), or an exception no one catches: the interpreter exits with 1
Exit(cause) ==
    /\ pc' = "exited"
    /\ exit_code' = <<1>>
    /\ exit_cause' = cause

\* line 38 as a test for None alone: an empty setting passes
Truthy_notnone(v) == v # None

\* "if not all([...])" of line 38: None and "" are false
Truthy(v) == v # None /\ v # ""

\* load_config, lines 17-42
load_config ==
    /\ pc = "load_config"
    /\ IF ~config.ints_ok THEN Exit("config_value_error")
       ELSE IF ~(Truthy(config.repository) /\ Truthy(config.password))
       THEN Exit("missing_required")
       ELSE /\ pc' = "start_http_server"
            /\ UNCHANGED <<exit_code, exit_cause>>
    /\ obs' = NoObs
    /\ UNCHANGED <<config, server_started, invoked, output, snapshots, idx,
                   registry, cycles, wrote_in_cycle, history, pure>>

\* main, lines 162-164
start_http_server ==
    /\ pc = "start_http_server"
    /\ server_started' = TRUE
    /\ pc' = "export_snapshots"
    /\ obs' = NoObs
    /\ UNCHANGED <<config, exit_code, exit_cause, invoked, output, snapshots,
                   idx, registry, cycles, wrote_in_cycle, history, pure>>

\* subprocess.run takes no None in env: TypeError, which nothing catches
EnvIsValid == config.access_key_id # None /\ config.secret_access_key # None

\* export_snapshots, lines 66-75, when env holds a None: line 47 raises
launch_raises ==
    /\ pc = "export_snapshots"
    /\ cycles < MaxCycles
    /\ ~EnvIsValid
    /\ Exit("env_type_error")
    /\ wrote_in_cycle' = FALSE
    /\ obs' = NoObs
    /\ UNCHANGED <<config, server_started, invoked, output, snapshots, idx,
                   registry, cycles, history, pure>>

\* the tool's failure handled by zeroing the count before the exit
tool_fails_zeroing ==
    /\ pc = "export_snapshots"
    /\ cycles < MaxCycles
    /\ EnvIsValid
    /\ invoked' = TRUE
    /\ Exit("tool_nonzero")
    /\ wrote_in_cycle' = TRUE
    /\ registry' = [registry EXCEPT !.count = 0]
    /\ obs' = NoObs
    /\ UNCHANGED <<config, server_started, output, snapshots, idx, cycles,
                   history, pure>>

\* run_restic_command, lines 49-51: the tool exits non-zero
tool_fails ==
    /\ pc = "export_snapshots"
    /\ cycles < MaxCycles
    /\ EnvIsValid
    /\ invoked' = TRUE
    /\ Exit("tool_nonzero")
    /\ wrote_in_cycle' = FALSE
    /\ obs' = NoObs
    /\ UNCHANGED <<config, server_started, output, snapshots, idx, registry,
                   cycles, history, pure>>

\* run_restic_command, line 47: the tool never returns (there is no timeout)
tool_hangs ==
    /\ pc = "export_snapshots"
    /\ cycles < MaxCycles
    /\ EnvIsValid
    /\ invoked' = TRUE
    /\ pc' = "hung"
    /\ wrote_in_cycle' = FALSE
    /\ obs' = NoObs
    /\ UNCHANGED <<config, exit_code, exit_cause, server_started, output,
                   snapshots, idx, registry, cycles, history, pure>>

\* export_snapshots, lines 66-109: the tool prints out and exits with 0
export_snapshots ==
    /\ pc = "export_snapshots"
    /\ cycles < MaxCycles
    /\ EnvIsValid
    /\ \E out \in Outputs :
          /\ output' = out
          /\ snapshots' = ParseOutput(out)
    /\ invoked' = TRUE
    /\ same_output' = (cycles > 0 /\ output' = output)
    /\ prev_registry' = registry
    /\ wrote_in_cycle' = FALSE
    /\ idx' = 0
    /\ pc' = "set_count"
    /\ obs' = NoObs
    /\ UNCHANGED <<config, exit_code, exit_cause, server_started, registry,
                   cycles, last_registry, pure>>

(***************************************************************************)
(* update_prometheus_metrics: the registry writes of one cycle             *)
(***************************************************************************)
wUnknown == <<"u", "n", "k", "n", "o", "w", "n">>
wNone    == <<"n", "o", "n", "e">>

\* "str(x).strip() if x else default" of lines 132-136
Label(x, default) == IF x # <<>> THEN strip(x) ELSE default

\* line 139, from the label of line 133
TimestampOf(s) == convert_to_timestamp(Label(s.time, wUnknown))

\* the label values of lines 142-148, in the order of line 13
DetailsLabels(s) ==
    <<Label(s.hostname, wUnknown), Label(s.id, wUnknown), str(TimestampOf(s)),
      Label(s.tags, wNone), Label(s.directory, wUnknown)>>

\* the label values of lines 151-155, in the order of line 15
TimestampLabels(s) ==
    <<Label(s.hostname, wUnknown), Label(s.id, wUnknown), str(TimestampOf(s))>>

\* Gauge.labels(...): the series of these label values, made with value
\* `zero` when it is not there yet
WithChild(series, labels, zero) ==
    IF labels \in DOMAIN series THEN series
    ELSE [l \in DOMAIN series \cup {labels} |-> IF l = labels THEN zero ELSE series[l]]

\* Gauge.set(value) on the series of these label values
WithValue(series, labels, value) ==
    [l \in DOMAIN series \cup {labels} |-> IF l = labels THEN value ELSE series[l]]

\* update_prometheus_metrics has returned: main goes on to time.sleep
Completes(reg) ==
    /\ pc' = "sleep"
    /\ cycles' = cycles + 1
    /\ last_registry' = reg

\* line 124 with the output's lines counted, not the records
CountValue_lines == Len(splitlines(output))

\* line 124 with Gauge.inc for Gauge.set
CountValue_inc == registry.count + Len(snapshots)

\* the value SNAPSHOT_COUNT is set to, line 124
CountValue == Len(snapshots)

\* line 124
set_count ==
    /\ pc = "set_count"
    /\ registry' = [registry EXCEPT !.count = CountValue]
    /\ wrote_in_cycle' = TRUE
    /\ IF snapshots = <<>>
       THEN /\ Completes(registry')
            /\ idx' = 0
       ELSE /\ pc' = "details_labels"
            /\ idx' = 1
            /\ UNCHANGED <<cycles, last_registry>>
    /\ obs' = NoObs
    /\ UNCHANGED <<config, exit_code, exit_cause, server_started, invoked, output,
                   snapshots, prev_registry, same_output, pure>>

\* lines 142-148, SNAPSHOT_DETAILS.labels(...)
details_labels ==
    /\ pc = "details_labels"
    /\ registry' = [registry EXCEPT
          !.details = WithChild(@, DetailsLabels(snapshots[idx]), Zero)]
    /\ wrote_in_cycle' = TRUE
    /\ pc' = "details_set"
    /\ obs' = NoObs
    /\ UNCHANGED <<config, exit_code, exit_cause, server_started, invoked, output,
                   snapshots, idx, cycles, history, pure>>

\* lines 142-148 with the date and time as the date label, not the timestamp
DetailsWrite_rawdate(s) ==
    [labels |-> <<Label(s.hostname, wUnknown), Label(s.id, wUnknown),
                  Label(s.time, wUnknown), Label(s.tags, wNone),
                  Label(s.directory, wUnknown)>>,
     value  |-> s.size]

\* the label values and the value of the write of lines 142-148
DetailsWrite(s) == [labels |-> DetailsLabels(s), value |-> s.size]

\* lines 142-148, .set(numeric_size)
details_set ==
    /\ pc = "details_set"
    /\ LET w == DetailsWrite(snapshots[idx])
       IN  registry' = [registry EXCEPT !.details = WithValue(@, w.labels, w.value)]
    /\ wrote_in_cycle' = TRUE
    /\ pc' = "timestamp_labels"
    /\ obs' = NoObs
    /\ UNCHANGED <<config, exit_code, exit_cause, server_started, invoked, output,
                   snapshots, idx, cycles, history, pure>>

\* lines 151-155, SNAPSHOT_TIMESTAMP.labels(...)
timestamp_labels ==
    /\ pc = "timestamp_labels"
    /\ registry' = [registry EXCEPT
          !.timestamps = WithChild(@, TimestampLabels(snapshots[idx]), 0)]
    /\ wrote_in_cycle' = TRUE
    /\ pc' = "timestamp_set"
    /\ obs' = NoObs
    /\ UNCHANGED <<config, exit_code, exit_cause, server_started, invoked, output,
                   snapshots, idx, cycles, history, pure>>

\* lines 151-155, .set(timestamp), and the loop's next turn or its end
timestamp_set ==
    /\ pc = "timestamp_set"
    /\ LET s == snapshots[idx]
       IN  registry' = [registry EXCEPT
              !.timestamps = WithValue(@, TimestampLabels(s), TimestampOf(s))]
    /\ wrote_in_cycle' = TRUE
    /\ IF idx = Len(snapshots)
       THEN /\ Completes(registry')
            /\ idx' = 0
       ELSE /\ pc' = "details_labels"
            /\ idx' = idx + 1
            /\ UNCHANGED <<cycles, last_registry>>
    /\ obs' = NoObs
    /\ UNCHANGED <<config, exit_code, exit_cause, server_started, invoked, output,
                   snapshots, prev_registry, same_output, pure>>

\* main, line 169: time.sleep raises ValueError for a negative interval
sleep ==
    /\ pc = "sleep"
    /\ IF config.interval < 0 THEN Exit("sleep_value_error")
       ELSE /\ pc' = "export_snapshots"
            /\ UNCHANGED <<exit_code, exit_cause>>
    /\ obs' = NoObs
    /\ UNCHANGED <<config, server_started, invoked, output, snapshots, idx,
                   registry, cycles, wrote_in_cycle, history, pure>>

\* the process is alive: its server thread answers
Alive == pc \notin {"load_config", "start_http_server", "exited"}

\* a scrape: the server thread reads the registry between two steps of main
scrape ==
    /\ server_started
    /\ Alive
    /\ obs' = [at |-> pc, registry |-> registry]
    /\ UNCHANGED <<config, pc, exit_code, exit_cause, server_started, invoked,
                   output, snapshots, idx, registry, cycles, wrote_in_cycle,
                   history, pure>>

Next ==
    \/ load_config
    \/ start_http_server
    \/ launch_raises
    \/ tool_fails
    \/ tool_hangs
    \/ export_snapshots
    \/ set_count
    \/ details_labels
    \/ details_set
    \/ timestamp_labels
    \/ timestamp_set
    \/ sleep
    \/ scrape

Spec == Init /\ [][Next]_vars

(***************************************************************************)
(* parse_size and the parser called by themselves, on more inputs than the *)
(* cycle model's listings hold                                             *)
(***************************************************************************)
w3     == <<"3">>
w12    == <<"1", "2">>
w500   == <<"5", "0", "0">>
w3419  == <<"3", ".", "4", "1", "9">>
wAbc   == <<"a", "b", "c">>

\* first tokens of a size string
ValueTokens ==
    {w3, w12, w500, w3419, wAbc, <<"0">>, <<"-", "2">>, <<".", "5">>, <<"4", ".">>,
     <<".">>, <<"1", ".", "2", ".", "3">>, <<"-">>, <<"3", "G">>}

\* second tokens of a size string
UnitTokens == {wB, wKiB, wMiB, wGiB, wTiB, <<"g", "i", "b">>, <<"P", "i", "B">>, w3}

\* the most tokens of a size string
MaxTokens == 3

\* size strings: no token, a value alone, a value and a unit, and more
\* tokens than two; once joined by single blanks as line 96 does, once with
\* blanks around and a tab between
SizeStrings ==
    LET toks == UNION { {<<>>}, {<<v>> : v \in ValueTokens},
                        {<<v, u>> : v \in ValueTokens, u \in UnitTokens},
                        IF MaxTokens > 2
                        THEN {<<v, wGiB>> \o [i \in 1..(MaxTokens - 2) |-> wB] :
                                v \in {w3, wAbc}}
                        ELSE {} }
    IN  {join(SP, ts) : ts \in toks}
          \cup {SP \o join(<<"\t", " ">>, ts) \o SP : ts \in toks}

\* a row of n fields: an id, the date, the time, a host, tags, a directory and
\* size tokens
RowOf(n) ==
    join(<<" ", " ">>, SubSeq(<<wA1, wDate, wTime, wHost, wTags, wDir, w3419, wGiB, wB>>, 1, n))

\* the most fields of a row given to the parser
MaxRowFields == 8

\* the lines given to the parser
ParserLines ==
    { RowOf(n) : n \in 0..MaxRowFields }
      \cup { SP \o RowOf(n) \o SP : n \in {0, 5, 6} }
      \cup { HeaderLines[1], HeaderLines[2],
             \* the header after a blank, which startswith does not see
             SP \o HeaderLines[1],
             \* an id that begins with ID, dashes with fields after them
             wID \o RowOf(7), wDash \o SP \o RowOf(7),
             \* two dashes, a lower-case "id"
             <<"-", "-">> \o RowOf(7), <<"i", "d">> \o RowOf(7),
             <<"\t", " ">> }

\* the most lines of a text given to the parser
MaxParserLines == 2

\* texts: lines, each ended by a newline, or only separated by newlines
ParserTexts ==
    LET seqs == UNION { [1..n -> ParserLines] : n \in 0..MaxParserLines }
    IN  {Unlines(ls) : ls \in seqs} \cup {join(<<NL>>, ls) : ls \in seqs}

Calls ==
    [fn : {"parse_size"}, arg : SizeStrings, done : {FALSE}]
      \cup [fn : {"parse_output"}, arg : ParserTexts, done : {FALSE}]

PureInit ==
    /\ config = [repository |-> "s3:repo", password |-> "pw", access_key_id |-> "key",
                 secret_access_key |-> "secret", ints_ok |-> TRUE, interval |-> 30]
    /\ InitProcess
    /\ call \in Calls
    /\ ret = <<>>

process == <<config, pc, exit_code, exit_cause, server_started, invoked, output,
             snapshots, idx, registry, cycles, wrote_in_cycle, history, obs>>

call_parse_size ==
    /\ call.fn = "parse_size"
    /\ ~call.done
    /\ ret' = parse_size(call.arg)
    /\ call' = [call EXCEPT !.done = TRUE]
    /\ UNCHANGED process

call_parse_output ==
    /\ call.fn = "parse_output"
    /\ ~call.done
    /\ ret' = ParseOutput(call.arg)
    /\ call' = [call EXCEPT !.done = TRUE]
    /\ UNCHANGED process

PureNext == call_parse_size \/ call_parse_output

PureSpec == PureInit /\ [][PureNext]_vars

(***************************************************************************)
(* The claims about a polling cycle, checked under Spec                    *)
(***************************************************************************)
\* update_prometheus_metrics has returned and main has not gone on
CycleDone == pc = "sleep"

\* what the spec calls a record's label tuples: the fields as parsed, the
\* date being the timestamp as a string, 0 for a date that is none
SpecTimestamp(s) == IF strptime(s.time).ok THEN convert_to_timestamp(s.time) ELSE 0
SpecDetailsLabels(s) == <<s.hostname, s.id, str(SpecTimestamp(s)), s.tags, s.directory>>
SpecTimestampLabels(s) == <<s.hostname, s.id, str(SpecTimestamp(s))>>

Records == {snapshots[i] : i \in 1..Len(snapshots)}

\* C1: after every completed cycle the label tuples present in
\* restic_snapshot_details and restic_snapshot_timestamp are exactly those of
\* the records parsed from that cycle's output: no series is left of a snapshot
\* that an earlier cycle listed and the latest does not.
C1_OnlyCurrentSnapshots ==
    CycleDone =>
        /\ DOMAIN registry.details = {SpecDetailsLabels(s) : s \in Records}
        /\ DOMAIN registry.timestamps = {SpecTimestampLabels(s) : s \in Records}

\* C2, as claimed: after a completed cycle every record of that cycle's output,
\* also one that shares its label tuple with another record of the output, has
\* its size in its details series and its timestamp in its timestamp series.
C2_EveryRecordHeld ==
    CycleDone =>
        \A s \in Records :
            /\ SpecDetailsLabels(s) \in DOMAIN registry.details
            /\ registry.details[SpecDetailsLabels(s)] = s.size
            /\ SpecTimestampLabels(s) \in DOMAIN registry.timestamps
            /\ registry.timestamps[SpecTimestampLabels(s)] = SpecTimestamp(s)

\* the record at i is the last of the output with its details label tuple
IsLastOfLabels(i) ==
    \A j \in (i + 1)..Len(snapshots) :
        SpecDetailsLabels(snapshots[j]) # SpecDetailsLabels(snapshots[i])

\* C2, amended: after a completed cycle every record of that cycle's output has
\* its timestamp (0 for a date that is none, and then "0" as the date label) in
\* its timestamp series, and the details series of its label tuple holds the
\* size of the last record of the output with that label tuple.
C2_LastRecordHeld ==
    CycleDone =>
        \A i \in 1..Len(snapshots) :
            LET s == snapshots[i]
            IN  /\ SpecDetailsLabels(s) \in DOMAIN registry.details
                /\ IsLastOfLabels(i) => registry.details[SpecDetailsLabels(s)] = s.size
                /\ SpecTimestampLabels(s) \in DOMAIN registry.timestamps
                /\ registry.timestamps[SpecTimestampLabels(s)] = SpecTimestamp(s)
                /\ s.time = wDate \o SP \o wTime => SpecTimestamp(s) = 1730996777
                /\ s.time = wFeb30 \o SP \o wTime =>
                      /\ SpecTimestampLabels(s)[3] = <<"0">>
                      /\ registry.timestamps[SpecTimestampLabels(s)] = 0

\* C2's case: a completed cycle whose output held two records of one label
\* tuple and different sizes
C2_Witness ==
    /\ CycleDone
    /\ \E i, j \in 1..Len(snapshots) :
          /\ i < j
          /\ SpecDetailsLabels(snapshots[i]) = SpecDetailsLabels(snapshots[j])
          /\ snapshots[i].size # snapshots[j].size
          /\ registry.details[SpecDetailsLabels(snapshots[j])] = snapshots[j].size

\* the lines of a text that the spec says make a record
SpecKept(line) ==
    /\ strip(line) # <<>>
    /\ ~startswith(line, <<"I", "D">>)
    /\ ~startswith(line, <<"-", "-", "-">>)
    /\ Len(split(line)) >= 6

\* C3: after every completed cycle restic_snapshot_count is the number of lines
\* of that cycle's output that are not blank, do not start with "ID" or "---"
\* and have at least 6 fields; an empty output sets it to 0.
C3_CountIsRecordCount ==
    CycleDone =>
        /\ LET lines == splitlines(output)
           IN  registry.count = Cardinality({i \in 1..Len(lines) : SpecKept(lines[i])})
        /\ output = <<>> => registry.count = 0

\* C3's case: an empty output after a cycle that counted snapshots
C3_Witness ==
    /\ CycleDone
    /\ output = <<>>
    /\ prev_registry.count > 0
    /\ registry.count = 0

\* C6: a cycle on the output the cycle before it had leaves the registry as
\* that cycle left it.
C6_Idempotent == (CycleDone /\ same_output) => registry = prev_registry

\* C6's case: the second of two cycles on one output with records in it, the
\* first of which began with series of other snapshots in the registry
C6_Witness ==
    /\ CycleDone
    /\ same_output
    /\ snapshots # <<>>
    /\ cycles >= 3
    /\ \E l \in DOMAIN registry.details : l \notin {SpecDetailsLabels(s) : s \in Records}

(***************************************************************************)
(* The claims about the process, checked under Spec                        *)
(***************************************************************************)
\* C7: when the tool exits non-zero the process ends with exit code 1 in that
\* cycle; the cycle writes nothing to the registry, which keeps what the latest
\* completed cycle left (nothing, when there was none), and once ended the
\* process starts no cycle and writes nothing.
C7_ToolFailureIsFatal ==
    /\ [](exit_cause = "tool_nonzero" =>
            /\ pc = "exited"
            /\ exit_code = <<1>>
            /\ ~wrote_in_cycle
            /\ registry = last_registry)
    /\ [][pc = "exited" => UNCHANGED <<pc, registry, cycles, invoked, output>>]_vars

\* C7's case: the tool fails after a cycle that published snapshots
C7_Witness ==
    /\ exit_cause = "tool_nonzero"
    /\ cycles > 0
    /\ registry.count > 0
    /\ DOMAIN registry.details # {}

\* the repository target and the decryption key are there and not empty
RequiredGiven ==
    /\ config.repository \notin {None, ""}
    /\ config.password \notin {None, ""}

\* main is in, or past, its first polling cycle
Polling ==
    \/ pc \in {"export_snapshots", "set_count", "details_labels", "details_set",
               "timestamp_labels", "timestamp_set", "sleep", "hung"}
    \/ invoked
    \/ cycles > 0
    \/ registry # EmptyRegistry
    \/ exit_cause \in {"env_type_error", "tool_nonzero", "sleep_value_error"}

\* C8: with the repository target or the decryption key missing or empty, the
\* process ends with a nonzero status and never starts the server, runs the
\* tool or writes the registry; with both given, the server is started before
\* the first cycle begins.
C8_ConfigErrorBeforeServer ==
    /\ ~RequiredGiven =>
          /\ pc \in {"load_config", "exited"}
          /\ pc = "exited" => exit_code = <<1>>
          /\ ~server_started
          /\ ~Polling
    /\ Polling => server_started
    /\ exit_cause = "missing_required" => ~RequiredGiven

\* C8's case: the process has ended on an empty repository target
C8_Witness ==
    /\ pc = "exited"
    /\ exit_cause = "missing_required"
    /\ config.repository = ""
    /\ config.password = "pw"

\* C9: a scrape reads what the latest writes left, and a scrape once the
\* cycle has completed reads a count and per-snapshot series that agree with
\* one output, that cycle's: the count of its records and the series of its
\* records' label tuples.
C9_ScrapeAgreesOnceComplete ==
    obs.at # "none" =>
        /\ obs.registry = registry
        /\ obs.at = "sleep" =>
              /\ obs.registry.count = Len(snapshots)
              /\ DOMAIN obs.registry.details = {SpecDetailsLabels(s) : s \in Records}
              /\ DOMAIN obs.registry.timestamps = {SpecTimestampLabels(s) : s \in Records}

\* the part of C9 that holds: while the per-snapshot series are being written
\* the count is already that of the new output, the series of the records not
\* yet reached are as the cycle before left them, and a scrape reads just that
C9_CountFirst ==
    /\ pc \in {"details_labels", "details_set", "timestamp_labels", "timestamp_set"} =>
          /\ registry.count = Len(snapshots)
          /\ (pc = "details_labels" /\ idx = 1) =>
                /\ registry.details = prev_registry.details
                /\ registry.timestamps = prev_registry.timestamps
          /\ pc \in {"timestamp_labels", "timestamp_set"} =>
                registry.details[SpecDetailsLabels(snapshots[idx])] = snapshots[idx].size
    /\ obs.at # "none" => obs = [at |-> pc, registry |-> registry]

\* a scrape in the middle of a cycle that read the new count with the series
\* of the cycle before
C9_MidCycleMix ==
    /\ obs.at = "details_labels"
    /\ idx = 1
    /\ obs.registry.count # prev_registry.count
    /\ obs.registry.details = prev_registry.details
    /\ prev_registry.details # NoSeries

\* C10: the process ends only on a configuration error or on a non-zero exit
\* of the tool.
C10_EndsOnlyOnConfigOrTool ==
    pc = "exited" => exit_cause \in {"missing_required", "config_value_error", "tool_nonzero"}

\* the part of C10 that holds: while the tool hangs the cycle writes nothing
\* and main stays where it is
C10_HangBlocks ==
    /\ [](pc = "hung" => (~wrote_in_cycle /\ registry = last_registry))
    /\ [][pc = "hung" => UNCHANGED <<pc, registry, cycles>>]_vars

(***************************************************************************)
(* The claims about parse_size and the parser, checked under PureSpec      *)
(***************************************************************************)
\* the indices of the lines of a text that the spec says make a record, in
\* the order of the lines
RECURSIVE KeptFrom(_, _)
KeptFrom(lines, i) ==
    IF i > Len(lines) THEN <<>>
    ELSE (IF SpecKept(lines[i]) THEN <<i>> ELSE <<>>) \o KeptFrom(lines, i + 1)

\* C4: the records are the lines that are not blank, do not begin with "ID" or
\* "---" and have at least 6 fields, one record a line and in the lines'
\* order; field 0 is the id, fields 1 and 2 joined by a blank the date and
\* time, field 3 the host, field 4 the tags, field 5 the directory, and the
\* size is that of fields 6.. joined by blanks.
C4_RecordsFollowLines ==
    (call.fn = "parse_output" /\ call.done) =>
        LET lines == splitlines(call.arg)
            kept  == KeptFrom(lines, 1)
        IN  /\ Len(ret) = Len(kept)
            /\ \A j \in 1..Len(kept) :
                  LET f == split(lines[kept[j]])
                  IN  /\ ret[j].id = f[1]
                      /\ ret[j].time = f[2] \o <<" ">> \o f[3]
                      /\ ret[j].hostname = f[4]
                      /\ ret[j].tags = f[5]
                      /\ ret[j].directory = f[6]
                      /\ ret[j].size =
                            parse_size(join(<<" ">>, [k \in 1..(Len(f) - 6) |-> f[k + 6]]))

\* C4's case: a text whose first line is dropped for its five fields and whose
\* second line has become the one record
C4_Witness ==
    /\ call.fn = "parse_output"
    /\ call.done
    /\ Len(splitlines(call.arg)) = 2
    /\ Len(split(splitlines(call.arg)[1])) = 5
    /\ Len(ret) = 1
    /\ ret[1].id = wA1

\* the multiplier of a unit, as a power of 1024, by the spec's table
SpecUnitPower(u) ==
    IF u = <<"K", "i", "B">> THEN 1
    ELSE IF u = <<"M", "i", "B">> THEN 2
    ELSE IF u = <<"G", "i", "B">> THEN 3
    ELSE IF u = <<"T", "i", "B">> THEN 4
    ELSE 0

\* C5: parse_size is 0 for a string that is not two tokens, 0 for a first token
\* that is no number, and else the number times the unit's multiplier, 1 for a
\* unit it does not know; "3.419 GiB" is 3.419 * 1024^3, "500 B" is 500, "12"
\* and "abc GiB" are 0.
C5_ParseSize ==
    (call.fn = "parse_size" /\ call.done) =>
        LET toks == split(call.arg)
        IN  /\ Len(toks) # 2 => ret = [m |-> 0, e |-> 0, f |-> 0]
            /\ (Len(toks) = 2 /\ ~float(toks[1]).ok) => ret = [m |-> 0, e |-> 0, f |-> 0]
            /\ (Len(toks) = 2 /\ float(toks[1]).ok) =>
                  ret = Num(float(toks[1]).n, float(toks[1]).j, SpecUnitPower(toks[2]))
            /\ toks = <<w3419, wGiB>> => ret = [m |-> 3419, e |-> 27, f |-> 3]
            /\ toks = <<w500, wB>> => ret = [m |-> 125, e |-> 2, f |-> 0]
            /\ toks = <<w500, <<"P", "i", "B">>>> => ret = [m |-> 125, e |-> 2, f |-> 0]
            /\ toks = <<w3, wTiB>> => ret = [m |-> 3, e |-> 40, f |-> 0]

\* C5's case: a number with a unit parse_size does not know
C5_Witness ==
    /\ call.fn = "parse_size"
    /\ call.done
    /\ split(call.arg) = <<w12, <<"P", "i", "B">>>>
    /\ ret = [m |-> 3, e |-> 2, f |-> 0]

====
